---------------------------- MODULE Spec2Model ----------------------------
(***************************************************************************)
(* A model of the gochip8 interpreter: the Chip8 machine (memory, CPU,     *)
(* display, key state), the fetch/decode/execute cycle with every          *)
(* instruction the dispatch knows, ROM loading, and the Run driver loop    *)
(* (cycle, v-blank tick, SDL event polling).                               *)
(*                                                                         *)
(* A Go runtime panic (index or slice bound out of range) and log.Fatalf   *)
(* both end the process; the model records which in exit and keeps the     *)
(* state the machine had at that moment.                                   *)
(***************************************************************************)
EXTENDS Integers, Sequences, FiniteSets

(***************************************************************************)
(* Program constants.                                                      *)
(***************************************************************************)
memorySize == 4096
programEntryOffset == 512
characterSpritesOffset == 256
characterSpriteBytes == 5
chip8frequency == 480
VBlankFreq == 60
Chip8Width == 64
Chip8Height == 32
numRegisters == 16
stackDepth == 16
numKeys == 16

\* Widths of the Go integer types in use.
Uint8Mod == 256
Uint16Mod == 65536

(***************************************************************************)
(* Bounds of the model.                                                    *)
(***************************************************************************)
\* The most SDL events one pollSdlEvents call drains from the queue.
MaxPollEvents == 2
\* The deepest chain of nested subroutine calls among the ROMs.
MaxNest == 16

(***************************************************************************)
(* Bit arithmetic on bytes: Go's &, |, ^, >> and << on uint8.              *)
(***************************************************************************)
Bit(b, k) == (b \div (2 ^ k)) % 2

BitAnd(a, b) ==
    LET t(k) == (Bit(a, k) * Bit(b, k)) * (2 ^ k)
    IN  t(0) + t(1) + t(2) + t(3) + t(4) + t(5) + t(6) + t(7)

BitOr(a, b) ==
    LET t(k) == (IF Bit(a, k) + Bit(b, k) > 0 THEN 1 ELSE 0) * (2 ^ k)
    IN  t(0) + t(1) + t(2) + t(3) + t(4) + t(5) + t(6) + t(7)

BitXor(a, b) ==
    LET t(k) == ((Bit(a, k) + Bit(b, k)) % 2) * (2 ^ k)
    IN  t(0) + t(1) + t(2) + t(3) + t(4) + t(5) + t(6) + t(7)

(***************************************************************************)
(* Opcode field extraction (core/opcode.go).                               *)
(***************************************************************************)
nnn(oc) == oc % 4096
nn(oc) == oc % 256
n(oc) == oc % 16
x(oc) == (oc % 4096) \div 256
\* A variant of y with the mask 0x000F in place of 0x00F0 and no shift.
yLowNibble(oc) == oc % 16
y(oc) == (oc % 256) \div 16
\* oc & 0xF000, the selector of the outer switch of executeInstruction.
family(oc) == (oc \div 4096) * 4096

(***************************************************************************)
(* The built-in character sprites, hex digits 0..F, five bytes each.       *)
(***************************************************************************)
characterSprites ==
    << \hF0, \h90, \h90, \h90, \hF0,   \h20, \h60, \h20, \h20, \h70,
       \hF0, \h10, \hF0, \h80, \hF0,   \hF0, \h10, \hF0, \h10, \hF0,
       \h90, \h90, \hF0, \h10, \h10,   \hF0, \h80, \hF0, \h10, \hF0,
       \hF0, \h80, \hF0, \h90, \hF0,   \hF0, \h10, \h20, \h40, \h40,
       \hF0, \h90, \hF0, \h90, \hF0,   \hF0, \h90, \hF0, \h10, \hF0,
       \hF0, \h90, \hF0, \h90, \h90,   \hE0, \h90, \hE0, \h90, \hE0,
       \hF0, \h80, \h80, \h80, \hF0,   \hE0, \h90, \h90, \h90, \hE0,
       \hF0, \h80, \hF0, \h80, \hF0,   \hF0, \h80, \hF0, \h80, \h80 >>

(***************************************************************************)
(* Physical keys (SDL scancodes, by name) and their logical key.           *)
(***************************************************************************)
keybinds ==
    [ SCANCODE_7 |-> 1, SCANCODE_8 |-> 2, SCANCODE_9 |-> 3, SCANCODE_0 |-> 12,
      SCANCODE_U |-> 4, SCANCODE_I |-> 5, SCANCODE_O |-> 6, SCANCODE_P |-> 13,
      SCANCODE_J |-> 7, SCANCODE_K |-> 8, SCANCODE_L |-> 9,
      SCANCODE_SEMICOLON |-> 14,
      SCANCODE_M |-> 10, SCANCODE_COMMA |-> 0, SCANCODE_PERIOD |-> 11,
      SCANCODE_SLASH |-> 15 ]

(***************************************************************************)
(* The machine: the fields of Chip8 and CPU the instructions act on.       *)
(***************************************************************************)
\* A variant of NewCPU that leaves the program counter at its zero value.
NewCPUAtZero ==
    [ v |-> [r \in 0..(numRegisters - 1) |-> 0],
      i |-> 0,
      pc |-> 0,
      stack |-> [s \in 0..(stackDepth - 1) |-> 0],
      sp |-> 0,
      dt |-> 0,
      st |-> 0,
      opcode |-> 0 ]

NewCPU ==
    [ v |-> [r \in 0..(numRegisters - 1) |-> 0],
      i |-> 0,
      pc |-> programEntryOffset,
      stack |-> [s \in 0..(stackDepth - 1) |-> 0],
      sp |-> 0,
      dt |-> 0,
      st |-> 0,
      opcode |-> 0 ]

NewMemory ==
    [a \in 0..(memorySize - 1) |->
        IF /\ a >= characterSpritesOffset
           /\ a < characterSpritesOffset + Len(characterSprites)
        THEN characterSprites[a - characterSpritesOffset + 1]
        ELSE 0]

\* exit: "none" while the process lives, "fatal" after log.Fatalf, "panic"
\* after a Go runtime panic.  logged: what log.Fatalf was given to print.
NewChip8 ==
    [ mem |-> NewMemory,
      cpu |-> NewCPU,
      display |-> [p \in 0..(Chip8Width * Chip8Height - 1) |-> 0],
      exit |-> "none",
      logged |-> << >> ]

Panic(c) == [c EXCEPT !.exit = "panic"]

(***************************************************************************)
(* Instructions (core/cpu.go).  Each takes the machine and returns the     *)
(* machine after it; rx, ry and the immediates come from c.cpu.opcode.     *)
(***************************************************************************)
\* A variant of 00E0 that clears the first row of the display only.
Exec00E0ClearsOneRow(c) ==
    [c EXCEPT !.display =
        [p \in DOMAIN c.display |->
            IF p < Chip8Width THEN 0 ELSE c.display[p]]]

\* 00E0 - CLS
Exec00E0(c) == [c EXCEPT !.display = [p \in DOMAIN c.display |-> 0]]

\* A variant of 00EE that reads the stack before it moves the pointer.
Exec00EEReadsFirst(c) ==
    IF c.cpu.sp >= stackDepth
    THEN Panic(c)
    ELSE [c EXCEPT !.cpu.pc = c.cpu.stack[c.cpu.sp],
                   !.cpu.sp = (c.cpu.sp + Uint8Mod - 1) % Uint8Mod]

\* A variant of 00EE whose stack pointer wraps within the stack: a return
\* on an empty stack reads the last slot and goes on.
Exec00EEWraps(c) ==
    LET sp1 == (c.cpu.sp + stackDepth - 1) % stackDepth
    IN  [c EXCEPT !.cpu.sp = sp1, !.cpu.pc = c.cpu.stack[sp1]]

\* 00EE - RET: sp-- on a uint8, then pc = stack[sp].
Exec00EE(c) ==
    LET sp1 == (c.cpu.sp + Uint8Mod - 1) % Uint8Mod
        c1 == [c EXCEPT !.cpu.sp = sp1]
    IN  IF sp1 >= stackDepth
        THEN Panic(c1)
        ELSE [c1 EXCEPT !.cpu.pc = c.cpu.stack[sp1]]

\* A variant of 1NNN that takes the low byte of the opcode as the address.
Exec1NNNLowByte(c) == [c EXCEPT !.cpu.pc = nn(c.cpu.opcode)]

\* 1NNN - JP addr
Exec1NNN(c) == [c EXCEPT !.cpu.pc = nnn(c.cpu.opcode)]

\* A variant of 2NNN whose stack pointer wraps within the stack: a call on
\* a full stack overwrites the first slot and goes on.
Exec2NNNWraps(c) ==
    [c EXCEPT !.cpu.stack[c.cpu.sp % stackDepth] = c.cpu.pc,
              !.cpu.sp = (c.cpu.sp % stackDepth) + 1,
              !.cpu.pc = nnn(c.cpu.opcode)]

\* 2NNN - CALL addr: stack[sp] = pc, sp++, pc = nnn.
Exec2NNN(c) ==
    IF c.cpu.sp >= stackDepth
    THEN Panic(c)
    ELSE [c EXCEPT !.cpu.stack[c.cpu.sp] = c.cpu.pc,
                   !.cpu.sp = (c.cpu.sp + 1) % Uint8Mod,
                   !.cpu.pc = nnn(c.cpu.opcode)]

\* A variant of 3XNN that compares the register index with NN.
Exec3XNNComparesIndex(c) ==
    IF x(c.cpu.opcode) = nn(c.cpu.opcode)
    THEN [c EXCEPT !.cpu.pc = (c.cpu.pc + 2) % Uint16Mod]
    ELSE c

\* 3XNN - SE VX, byte
Exec3XNN(c) ==
    IF c.cpu.v[x(c.cpu.opcode)] = nn(c.cpu.opcode)
    THEN [c EXCEPT !.cpu.pc = (c.cpu.pc + 2) % Uint16Mod]
    ELSE c

\* 6XNN - LD VX, byte
Exec6XNN(c) == [c EXCEPT !.cpu.v[x(c.cpu.opcode)] = nn(c.cpu.opcode)]

\* A variant of 7XNN that writes the carry of the addition to VF.
Exec7XNNSetsCarry(c) ==
    LET sum == c.cpu.v[x(c.cpu.opcode)] + nn(c.cpu.opcode)
        c1 == [c EXCEPT !.cpu.v[x(c.cpu.opcode)] = sum % Uint8Mod]
    IN  [c1 EXCEPT !.cpu.v[15] = IF sum >= Uint8Mod THEN 1 ELSE 0]

\* 7XNN - ADD VX, byte
Exec7XNN(c) ==
    [c EXCEPT !.cpu.v[x(c.cpu.opcode)] = (@ + nn(c.cpu.opcode)) % Uint8Mod]

\* 8XY0 - LD VX, VY
Exec8XY0(c) ==
    [c EXCEPT !.cpu.v[x(c.cpu.opcode)] = c.cpu.v[y(c.cpu.opcode)]]

\* 8XY2 - AND VX, VY
Exec8XY2(c) ==
    [c EXCEPT !.cpu.v[x(c.cpu.opcode)] = BitAnd(@, c.cpu.v[y(c.cpu.opcode)])]

\* A variant of 8XY3 with | for ^.
Exec8XY3Ors(c) ==
    [c EXCEPT !.cpu.v[x(c.cpu.opcode)] = BitOr(@, c.cpu.v[y(c.cpu.opcode)])]

\* 8XY3 - XOR VX, VY
Exec8XY3(c) ==
    [c EXCEPT !.cpu.v[x(c.cpu.opcode)] = BitXor(@, c.cpu.v[y(c.cpu.opcode)])]

\* 8XY6 - SHR VX {, VY}: VF from the low bit of VX, then VX = VY >> 1.
Exec8XY6(c) ==
    LET c1 == [c EXCEPT !.cpu.v[15] =
                   IF c.cpu.v[x(c.cpu.opcode)] % 2 = 1 THEN 1 ELSE 0]
    IN  [c1 EXCEPT !.cpu.v[x(c.cpu.opcode)] = c1.cpu.v[y(c.cpu.opcode)] \div 2]

\* 8XYE - SHL VX {, VY}: VF from the high bit of VX, then VX = VY << 1.
Exec8XYE(c) ==
    LET c1 == [c EXCEPT !.cpu.v[15] =
                   IF c.cpu.v[x(c.cpu.opcode)] >= 128 THEN 1 ELSE 0]
    IN  [c1 EXCEPT !.cpu.v[x(c.cpu.opcode)] =
                       (c1.cpu.v[y(c.cpu.opcode)] * 2) % Uint8Mod]

\* ANNN - LD I, addr
ExecANNN(c) == [c EXCEPT !.cpu.i = nnn(c.cpu.opcode)]

\* A variant of DXYN that adds the sprite bit to the cell (+= for ^=).
ExecDXYNAdds(c) ==
    LET rx == x(c.cpu.opcode)
        ry == y(c.cpu.opcode)
        rows == n(c.cpu.opcode)
        i == c.cpu.i
        avail == memorySize - i
        inMem == IF rows <= avail THEN rows ELSE avail
        onDisp == IF inMem <= Chip8Height - ry THEN inMem ELSE Chip8Height - ry
        drawn == IF onDisp < 0 THEN 0 ELSE onDisp
        cols == IF Chip8Width - rx < 8 THEN Chip8Width - rx ELSE 8
        newpixel(iy, ix) == Bit(c.mem[i + iy], 7 - ix)
        cell(iy, ix) == (ry + iy) * Chip8Width + (rx + ix)
        disp1 == [p \in DOMAIN c.display |->
                    LET iy == (p \div Chip8Width) - ry
                        ix == (p % Chip8Width) - rx
                    IN  IF iy >= 0 /\ iy < drawn /\ ix >= 0 /\ ix < cols
                        THEN c.display[p] + newpixel(iy, ix)
                        ELSE c.display[p]]
        flipped == IF /\ c.display[cell(drawn - 1, cols - 1)] = 1
                      /\ newpixel(drawn - 1, cols - 1) = 1
                   THEN 1 ELSE 0
        c1 == IF drawn > 0 /\ cols > 0
              THEN [c EXCEPT !.display = disp1, !.cpu.v[15] = flipped]
              ELSE c
    IN  IF i > memorySize
        THEN Panic(c)
        ELSE IF avail < rows /\ ry + avail < Chip8Height
             THEN Panic(c1)
             ELSE c1

\* DXYN - DRW VX, VY, nibble.  spriteMem = memory[i:] panics when i is past
\* the end of memory, spriteMem[iy] when row iy is; the rows before it are
\* already drawn.  A pixel off the display is skipped before its row is read.
\* VF is written at every pixel drawn, so it ends as the last pixel's flag.
ExecDXYN(c) ==
    LET rx == x(c.cpu.opcode)
        ry == y(c.cpu.opcode)
        rows == n(c.cpu.opcode)
        i == c.cpu.i
        avail == memorySize - i
        inMem == IF rows <= avail THEN rows ELSE avail
        onDisp == IF inMem <= Chip8Height - ry THEN inMem ELSE Chip8Height - ry
        drawn == IF onDisp < 0 THEN 0 ELSE onDisp
        cols == IF Chip8Width - rx < 8 THEN Chip8Width - rx ELSE 8
        newpixel(iy, ix) == Bit(c.mem[i + iy], 7 - ix)
        cell(iy, ix) == (ry + iy) * Chip8Width + (rx + ix)
        disp1 == [p \in DOMAIN c.display |->
                    LET iy == (p \div Chip8Width) - ry
                        ix == (p % Chip8Width) - rx
                    IN  IF iy >= 0 /\ iy < drawn /\ ix >= 0 /\ ix < cols
                        THEN (c.display[p] + newpixel(iy, ix)) % 2
                        ELSE c.display[p]]
        flipped == IF /\ c.display[cell(drawn - 1, cols - 1)] = 1
                      /\ newpixel(drawn - 1, cols - 1) = 1
                   THEN 1 ELSE 0
        c1 == IF drawn > 0 /\ cols > 0
              THEN [c EXCEPT !.display = disp1, !.cpu.v[15] = flipped]
              ELSE c
    IN  IF i > memorySize
        THEN Panic(c)
        ELSE IF avail < rows /\ ry + avail < Chip8Height
             THEN Panic(c1)
             ELSE c1

\* A variant of FX0A whose scan of the keys does not stop at the first
\* pressed one, so that the last pressed key wins.
ExecFX0ATakesLast(c, keys) ==
    LET down == {k \in DOMAIN keys : keys[k] = 1}
        pressed == CHOOSE k \in down : \A j \in down : k >= j
    IN  IF down = {}
        THEN [c EXCEPT !.cpu.pc = (c.cpu.pc + Uint16Mod - 2) % Uint16Mod]
        ELSE [c EXCEPT !.cpu.v[x(c.cpu.opcode)] = pressed]

\* A variant of FX0A that does not move pc back when no key is pressed.
ExecFX0ANoBlock(c, keys) ==
    LET down == {k \in DOMAIN keys : keys[k] = 1}
        pressed == CHOOSE k \in down : \A j \in down : k <= j
    IN  IF down = {}
        THEN c
        ELSE [c EXCEPT !.cpu.v[x(c.cpu.opcode)] = pressed]

\* A variant of FX0A that never sees a pressed key.
ExecFX0ANeverSees(c, keys) ==
    [c EXCEPT !.cpu.pc = (c.cpu.pc + Uint16Mod - 2) % Uint16Mod]

\* FX0A - LD VX, key: the first pressed key in index order, else pc -= 2.
ExecFX0A(c, keys) ==
    LET down == {k \in DOMAIN keys : keys[k] = 1}
        pressed == CHOOSE k \in down : \A j \in down : k <= j
    IN  IF down = {}
        THEN [c EXCEPT !.cpu.pc = (c.cpu.pc + Uint16Mod - 2) % Uint16Mod]
        ELSE [c EXCEPT !.cpu.v[x(c.cpu.opcode)] = pressed]

\* A variant of FX55 whose addresses wrap at the end of memory.
ExecFX55Wraps(c) ==
    LET rx == x(c.cpu.opcode)
        i == c.cpu.i
    IN  [c EXCEPT !.mem = [a \in DOMAIN c.mem |->
                             IF \E r \in 0..rx : (i + r) % memorySize = a
                             THEN c.cpu.v[(a + memorySize - (i % memorySize))
                                            % memorySize]
                             ELSE c.mem[a]],
                  !.cpu.i = (i + rx + 1) % Uint16Mod]

\* FX55 - LD [I], VX: V0..VX to memory at I, one byte at a time; a byte past
\* the end of memory panics after the bytes before it were stored.
ExecFX55(c) ==
    LET rx == x(c.cpu.opcode)
        i == c.cpu.i
        avail == memorySize - i
        done == IF avail <= 0 THEN 0 ELSE IF rx + 1 <= avail THEN rx + 1 ELSE avail
        c1 == [c EXCEPT !.mem = [a \in DOMAIN c.mem |->
                                   IF a >= i /\ a < i + done
                                   THEN c.cpu.v[a - i] ELSE c.mem[a]]]
    IN  IF done < rx + 1
        THEN Panic(c1)
        ELSE [c1 EXCEPT !.cpu.i = (i + rx + 1) % Uint16Mod]

\* A variant of FX65 that leaves I where it was.
ExecFX65LeavesI(c) ==
    LET rx == x(c.cpu.opcode)
        i == c.cpu.i
        avail == memorySize - i
        done == IF avail <= 0 THEN 0 ELSE IF rx + 1 <= avail THEN rx + 1 ELSE avail
        c1 == [c EXCEPT !.cpu.v = [r \in DOMAIN c.cpu.v |->
                                     IF r < done THEN c.mem[i + r] ELSE c.cpu.v[r]]]
    IN  IF done < rx + 1 THEN Panic(c1) ELSE c1

\* FX65 - LD VX, [I]: memory at I to V0..VX, one byte at a time.
ExecFX65(c) ==
    LET rx == x(c.cpu.opcode)
        i == c.cpu.i
        avail == memorySize - i
        done == IF avail <= 0 THEN 0 ELSE IF rx + 1 <= avail THEN rx + 1 ELSE avail
        c1 == [c EXCEPT !.cpu.v = [r \in DOMAIN c.cpu.v |->
                                     IF r < done THEN c.mem[i + r] ELSE c.cpu.v[r]]]
    IN  IF done < rx + 1
        THEN Panic(c1)
        ELSE [c1 EXCEPT !.cpu.i = (i + rx + 1) % Uint16Mod]

\* FX1E - ADD I, VX
ExecFX1E(c) ==
    [c EXCEPT !.cpu.i = (c.cpu.i + c.cpu.v[x(c.cpu.opcode)]) % Uint16Mod]

(***************************************************************************)
(* Instructions the dispatch calls whose bodies are not among the sources; *)
(* they follow the instruction semantics of the specification.             *)
(***************************************************************************)
Skip(c) == [c EXCEPT !.cpu.pc = (c.cpu.pc + 2) % Uint16Mod]

\* 4XNN - SNE VX, byte
Exec4XNN(c) ==
    IF c.cpu.v[x(c.cpu.opcode)] # nn(c.cpu.opcode) THEN Skip(c) ELSE c

\* 5XY0 - SE VX, VY
Exec5XY0(c) ==
    IF c.cpu.v[x(c.cpu.opcode)] = c.cpu.v[y(c.cpu.opcode)] THEN Skip(c) ELSE c

\* 8XY1 - OR VX, VY
Exec8XY1(c) ==
    [c EXCEPT !.cpu.v[x(c.cpu.opcode)] = BitOr(@, c.cpu.v[y(c.cpu.opcode)])]

\* 8XY4 - ADD VX, VY: the sum wraps, VF is the carry.
Exec8XY4(c) ==
    LET sum == c.cpu.v[x(c.cpu.opcode)] + c.cpu.v[y(c.cpu.opcode)]
        c1 == [c EXCEPT !.cpu.v[x(c.cpu.opcode)] = sum % Uint8Mod]
    IN  [c1 EXCEPT !.cpu.v[15] = IF sum >= Uint8Mod THEN 1 ELSE 0]

\* 8XY5 - SUB VX, VY: VX - VY wraps, VF is 1 when there is no borrow.
Exec8XY5(c) ==
    LET vx == c.cpu.v[x(c.cpu.opcode)]
        vy == c.cpu.v[y(c.cpu.opcode)]
        c1 == [c EXCEPT !.cpu.v[x(c.cpu.opcode)] = (vx + Uint8Mod - vy) % Uint8Mod]
    IN  [c1 EXCEPT !.cpu.v[15] = IF vx >= vy THEN 1 ELSE 0]

\* 8XY7 - SUBN VX, VY: VY - VX wraps, VF is 1 when there is no borrow.
Exec8XY7(c) ==
    LET vx == c.cpu.v[x(c.cpu.opcode)]
        vy == c.cpu.v[y(c.cpu.opcode)]
        c1 == [c EXCEPT !.cpu.v[x(c.cpu.opcode)] = (vy + Uint8Mod - vx) % Uint8Mod]
    IN  [c1 EXCEPT !.cpu.v[15] = IF vy >= vx THEN 1 ELSE 0]

\* 9XY0 - SNE VX, VY
Exec9XY0(c) ==
    IF c.cpu.v[x(c.cpu.opcode)] # c.cpu.v[y(c.cpu.opcode)] THEN Skip(c) ELSE c

\* CXNN - RND VX, byte: a random byte AND nn.
ExecCXNN(c, rnd) ==
    [c EXCEPT !.cpu.v[x(c.cpu.opcode)] = BitAnd(rnd, nn(c.cpu.opcode))]

\* EX9E - SKP VX: skip when key VX is pressed; keys has 16 cells.
ExecEX9E(c, keys) ==
    LET k == c.cpu.v[x(c.cpu.opcode)]
    IN  IF k >= numKeys THEN Panic(c)
        ELSE IF keys[k] = 1 THEN Skip(c) ELSE c

\* EXA1 - SKNP VX: skip when key VX is not pressed.
ExecEXA1(c, keys) ==
    LET k == c.cpu.v[x(c.cpu.opcode)]
    IN  IF k >= numKeys THEN Panic(c)
        ELSE IF keys[k] # 1 THEN Skip(c) ELSE c

\* FX07 - LD VX, DT
ExecFX07(c) == [c EXCEPT !.cpu.v[x(c.cpu.opcode)] = c.cpu.dt]

\* FX15 - LD DT, VX
ExecFX15(c) == [c EXCEPT !.cpu.dt = c.cpu.v[x(c.cpu.opcode)]]

\* FX18 - LD ST, VX
ExecFX18(c) == [c EXCEPT !.cpu.st = c.cpu.v[x(c.cpu.opcode)]]

\* FX29 - LD F, VX: I = the address of the sprite of digit VX.
ExecFX29(c) ==
    [c EXCEPT !.cpu.i = (characterSpritesOffset
                          + c.cpu.v[x(c.cpu.opcode)] * characterSpriteBytes)
                        % Uint16Mod]

\* FX33 - LD B, VX: hundreds, tens and ones of VX to memory at I, I+1, I+2.
ExecFX33(c) ==
    LET vx == c.cpu.v[x(c.cpu.opcode)]
        i == c.cpu.i
        digit(k) == IF k = 0 THEN vx \div 100
                    ELSE IF k = 1 THEN (vx \div 10) % 10 ELSE vx % 10
        avail == memorySize - i
        done == IF avail <= 0 THEN 0 ELSE IF 3 <= avail THEN 3 ELSE avail
        c1 == [c EXCEPT !.mem = [a \in DOMAIN c.mem |->
                                   IF a >= i /\ a < i + done
                                   THEN digit(a - i) ELSE c.mem[a]]]
    IN  IF done < 3 THEN Panic(c1) ELSE c1

\* The timer tick: each timer goes down by one, and stays at 0.
decrementTimers(c) ==
    [c EXCEPT !.cpu.dt = IF @ > 0 THEN @ - 1 ELSE 0,
              !.cpu.st = IF @ > 0 THEN @ - 1 ELSE 0]

(***************************************************************************)
(* Fetch, dispatch and the cycle (core/chip8.go).                          *)
(***************************************************************************)
\* A variant of invalidOpcode that lets an unknown opcode pass as a no-op.
invalidOpcodeIgnored(c) == c

\* log.Fatalf("Invalid opcode: %#v\n", c.cpu.opcode): the opcode is all it
\* prints, and the process exits.
invalidOpcode(c) ==
    [c EXCEPT !.exit = "fatal", !.logged = [opcode |-> c.cpu.opcode]]

\* bx := c.mem[pc : pc+2], pc+2 computed on uint16; the slice expression
\* panics unless pc <= pc+2 <= len(mem).  The opcode is big-endian.
getNextInstruction(c) ==
    LET lo == c.cpu.pc
        hi == (c.cpu.pc + 2) % Uint16Mod
    IN  IF lo > hi \/ hi > memorySize
        THEN Panic(c)
        ELSE [c EXCEPT !.cpu.opcode = c.mem[lo] * 256 + c.mem[lo + 1]]

executeInstruction(c, keys, rnd) ==
    LET oc == c.cpu.opcode
    IN  CASE family(oc) = \h0000 ->
                 CASE nnn(oc) = \h0E0 -> Exec00E0(c)
                   [] nnn(oc) = \h0EE -> Exec00EE(c)
                   [] OTHER -> invalidOpcode(c)
          [] family(oc) = \h1000 -> Exec1NNN(c)
          [] family(oc) = \h2000 -> Exec2NNN(c)
          [] family(oc) = \h3000 -> Exec3XNN(c)
          [] family(oc) = \h4000 -> Exec4XNN(c)
          [] family(oc) = \h5000 -> Exec5XY0(c)
          [] family(oc) = \h6000 -> Exec6XNN(c)
          [] family(oc) = \h7000 -> Exec7XNN(c)
          [] family(oc) = \h8000 ->
                 CASE n(oc) = \h0 -> Exec8XY0(c)
                   [] n(oc) = \h1 -> Exec8XY1(c)
                   [] n(oc) = \h2 -> Exec8XY2(c)
                   [] n(oc) = \h3 -> Exec8XY3(c)
                   [] n(oc) = \h4 -> Exec8XY4(c)
                   [] n(oc) = \h5 -> Exec8XY5(c)
                   [] n(oc) = \h6 -> Exec8XY6(c)
                   [] n(oc) = \h7 -> Exec8XY7(c)
                   [] n(oc) = \hE -> Exec8XYE(c)
                   [] OTHER -> invalidOpcode(c)
          [] family(oc) = \h9000 -> Exec9XY0(c)
          [] family(oc) = \hA000 -> ExecANNN(c)
          [] family(oc) = \hC000 -> ExecCXNN(c, rnd)
          [] family(oc) = \hD000 -> ExecDXYN(c)
          [] family(oc) = \hE000 ->
                 CASE nn(oc) = \h9E -> ExecEX9E(c, keys)
                   [] nn(oc) = \hA1 -> ExecEXA1(c, keys)
                   [] OTHER -> invalidOpcode(c)
          [] family(oc) = \hF000 ->
                 CASE nn(oc) = \h07 -> ExecFX07(c)
                   [] nn(oc) = \h0A -> ExecFX0A(c, keys)
                   [] nn(oc) = \h15 -> ExecFX15(c)
                   [] nn(oc) = \h18 -> ExecFX18(c)
                   [] nn(oc) = \h1E -> ExecFX1E(c)
                   [] nn(oc) = \h29 -> ExecFX29(c)
                   [] nn(oc) = \h33 -> ExecFX33(c)
                   [] nn(oc) = \h55 -> ExecFX55(c)
                   [] nn(oc) = \h65 -> ExecFX65(c)
                   [] OTHER -> invalidOpcode(c)
          [] OTHER -> invalidOpcode(c)

\* A variant of cycle that moves pc only after the instruction has run.
cycleAdvancesAfter(c, keys, rnd) ==
    LET f == getNextInstruction(c)
        e == executeInstruction(f, keys, rnd)
    IN  IF f.exit # "none"
        THEN f
        ELSE [e EXCEPT !.cpu.pc = (e.cpu.pc + 2) % Uint16Mod]

\* A variant of cycle that also counts the timers down, once per
\* instruction.
cycleTicksTimers(c, keys, rnd) ==
    LET f == getNextInstruction(c)
        e == executeInstruction(
                 [f EXCEPT !.cpu.pc = (f.cpu.pc + 2) % Uint16Mod], keys, rnd)
    IN  IF f.exit # "none" THEN f
        ELSE IF e.exit # "none" THEN e
        ELSE decrementTimers(e)

\* Fetch, pc += 2, execute.
cycle(c, keys, rnd) ==
    LET f == getNextInstruction(c)
    IN  IF f.exit # "none"
        THEN f
        ELSE executeInstruction(
                 [f EXCEPT !.cpu.pc = (f.cpu.pc + 2) % Uint16Mod], keys, rnd)

\* A variant of LoadRom that forgets the program entry offset: byte i of
\* the file goes to address i.
LoadRomAtZero(c, romdata) ==
    LET done == IF Len(romdata) <= memorySize THEN Len(romdata) ELSE memorySize
        c1 == [c EXCEPT !.mem = [a \in DOMAIN c.mem |->
                  IF a < done THEN romdata[a + 1] ELSE c.mem[a]]]
    IN  IF done < Len(romdata) THEN Panic(c1) ELSE c1

\* LoadRom: the bytes of the file go to memory from programEntryOffset on,
\* one at a time; a byte past the end of memory panics after the bytes
\* before it were stored.
LoadRom(c, romdata) ==
    LET fit == memorySize - programEntryOffset
        done == IF Len(romdata) <= fit THEN Len(romdata) ELSE fit
        c1 == [c EXCEPT !.mem = [a \in DOMAIN c.mem |->
                  IF a >= programEntryOffset /\ a < programEntryOffset + done
                  THEN romdata[a - programEntryOffset + 1] ELSE c.mem[a]]]
    IN  IF done < Len(romdata) THEN Panic(c1) ELSE c1

(***************************************************************************)
(* pollSdlEvents: every event waiting in the SDL queue, in order.          *)
(***************************************************************************)
\* A variant of handleEvent without the ok test of the map lookup: an
\* unbound scancode yields the zero value, key 0.
handleEventNoOkTest(in, ev) ==
    LET key == IF ev.scancode \in DOMAIN keybinds
               THEN keybinds[ev.scancode] ELSE 0
    IN  CASE ev.type = "QUIT" -> [in EXCEPT !.isRunning = FALSE]
          [] ev.type = "KEYDOWN" -> [in EXCEPT !.keys[key] = 1]
          [] ev.type = "KEYUP" -> [in EXCEPT !.keys[key] = 0]
          [] OTHER -> in

handleEvent(in, ev) ==
    CASE ev.type = "QUIT" -> [in EXCEPT !.isRunning = FALSE]
      [] ev.type = "KEYDOWN" ->
             IF ev.scancode \in DOMAIN keybinds
             THEN [in EXCEPT !.keys[keybinds[ev.scancode]] = 1] ELSE in
      [] ev.type = "KEYUP" ->
             IF ev.scancode \in DOMAIN keybinds
             THEN [in EXCEPT !.keys[keybinds[ev.scancode]] = 0] ELSE in
      [] OTHER -> in

RECURSIVE pollSdlEvents(_, _)
pollSdlEvents(in, evs) ==
    IF evs = << >> THEN in
    ELSE pollSdlEvents(handleEvent(in, Head(evs)), Tail(evs))

(***************************************************************************)
(* Inputs: the ROM files the machine is started on, and the SDL events.    *)
(***************************************************************************)
\* The bytes of a ROM file holding the given 16-bit words, big-endian.
Bytes(ws) ==
    [k \in 1..(2 * Len(ws)) |->
        IF k % 2 = 1 THEN ws[(k + 1) \div 2] \div 256 ELSE ws[k \div 2] % 256]

\* One instruction of every case of the dispatch, and opcodes of no case,
\* each run after V1 = 0xA7 and V2 = 0x35 were loaded.
SampleOpcodes ==
    { \h00E0, \h00EE, \h0FFF, \h0123, \h1206, \h1FFF, \h2204, \h2208,
      \h31A7, \h3111, \h41A7, \h4111, \h5120, \h5110, \h6A2B, \h71F0,
      \h8120, \h8121, \h8122, \h8123, \h8124, \h8125, \h8126, \h8127,
      \h812E, \h8128, \h812F, \h9120, \h9110, \hA123, \hB123, \hC10F,
      \hD125, \hE19E, \hE1A1, \hE100, \hF107, \hF10A, \hF115, \hF118,
      \hF11E, \hF129, \hF133, \hF155, \hF165, \hF1FF, \hF100 }

SampleRoms == { << \h61A7, \h6235, w >> : w \in SampleOpcodes }

\* Draw the sprite made of the ROM's own first bytes twice at the same
\* place, with the position registers holding other values than their
\* indices.
DrawRegs == { <<0, 0>>, <<1, 2>>, <<3, 1>> }
DrawRows == { 0, 1, 2, 4, 5 }
DrawOp(rx, ry, rows) == \hD000 + rx * 256 + ry * 16 + rows
DrawRoms ==
    { << \h6000 + r[1] * 256 + 10, \h6000 + r[2] * 256 + 3, \hA200,
         DrawOp(r[1], r[2], rows), DrawOp(r[1], r[2], rows) >> :
      r \in DrawRegs, rows \in DrawRows }

\* Wait for a key into V3 or VF, with 0x55 in the register before.
KeyRoms ==
    { << \h6355, \hF30A >>, << \h6F55, \hFF0A >>, << \hF00A, \h1200 >> }

\* A chain of d nested calls: level k calls level k + 1 and returns; the
\* last level only returns; the return at level 0 finds the stack empty.
ChainRom(d) ==
    [k \in 1..(2 * d + 1) |->
        IF k % 2 = 0 \/ k = 2 * d + 1 THEN \h00EE
        ELSE \h2000 + programEntryOffset + 2 * (k + 1)]

\* Two calls of the same subroutine one after the other; a routine that
\* calls itself until the stack is full; a jump to itself.
CallRoms ==
    { ChainRom(d) : d \in 1..MaxNest }
      \cup { << \h2208, \h2208, \h0000, \h0000, \h00EE >>,
             << \h2200 >>,
             << \h1200 >> }

\* A return as the first instruction: the stack is empty.
StackRoms == { << \h00EE >>, << \h6001, \h00EE >> }

\* Block stores, block loads and draws at the end of memory and past it: I
\* is 0xFFF from ANNN, and more after FX1E.
MemRoms ==
    { << \h60AB, \h6105, \hAFFF, \hF155 >>,
      << \h60AB, \h61CD, \hAFFF, \hF165 >>,
      << \h60AB, \h6102, \hAFFF, \hF11E, \hF055 >>,
      << \h60AB, \h6102, \hAFFF, \hF11E, \hF065 >>,
      << \h60FF, \hAFFF, \hF055, \hAFFF, \hD012 >>,
      << \h6101, \hAFFF, \hF11E, \hD011 >>,
      << \h6102, \hAFFF, \hF11E, \hD011 >> }

\* Store V0..Vx at I, clear the registers, load V0..Vx back from I.
BlockCases == { <<0, \h300>>, <<3, \h300>>, <<15, \h300>>,
                <<3, \hFFC>>, <<15, \hFF0>> }
BlockRom(rx, addr) ==
    << \h6011, \h6122, \h6233, \h6344, \h6FEE,
       \hA000 + addr, \hF055 + rx * 256,
       \h6000, \h6100, \h6200, \h6300, \h6F00,
       \hA000 + addr, \hF065 + rx * 256 >>
BlockRoms == { BlockRom(b[1], b[2]) : b \in BlockCases }

\* Skips on V0, VA and VF with operands 0, 0x7F, 0x80 and 0xFF.
SkipRoms ==
    { << \h3000 >>, << \h3001 >>, << \h6FFF, \h3FFF >>, << \h6FFF, \h3F00 >>,
      << \h6A80, \h3A7F >>, << \h6A80, \h3A80 >> }

\* Jumps to the first and the last addresses, and from another place than
\* the program entry.
JumpRoms == { << \h1000 >>, << \h1FFE >>, << \h1204, \h0000, \h1200 >> }

\* Clear, draw the ROM's own first bytes as sprites, clear again.
ClearRoms ==
    { << \h00E0, \hA200, \hD005, \hD125, \h00E0 >>,
      << \h6133, \hA200, \hD003, \h00E0, \hD003 >> }

\* Shifts of one register into another whose low and high bits differ from
\* the source's, and of a register into itself.
ShiftRoms ==
    { << \h6101, \h6202, \h8126 >>, << \h6102, \h6201, \h8126 >>,
      << \h6101, \h6280, \h812E >>, << \h6180, \h6201, \h812E >>,
      << \h6181, \h8116 >>, << \h6181, \h811E >> }

\* Additions that wrap, on V0, VA, VB and VF, with VF holding 0xAA.
AddRoms ==
    { << \h6FAA, \h70FF, \h70FF >>, << \h6FAA, \h6A80, \h7A80 >>,
      << \h6FAA, \h6B01, \h7BFF >>, << \h6FAA, \h7F56 >>, << \h7000 >> }

\* Set the delay timer to 3 and the sound timer to 2, then loop.
TimerRoms == { << \h6103, \hF115, \h6102, \hF118, \h1208 >> }

\* Draws with the position registers holding 62 and 31, where part of the
\* sprite is past the right or the bottom edge.
ClipRoms ==
    { << \h603E, \h6100, \hA200, \hD011 >>,
      << \h6000, \h611F, \hA200, \hD012 >> }

\* Copy, AND and XOR between V1 = 0xF0, V2 = 0x3C and VF = 0xAA, with I
\* set: into another register, into the same register, into and from VF;
\* and immediate loads into V0 and VF.
RegisterOps ==
    { \h8120, \h8210, \h8122, \h8212, \h8123, \h8213, \h8110, \h8112,
      \h8113, \h8F10, \h81F0, \h8F12, \h81F2, \h8F13, \h81F3, \h8343,
      \h6000, \h60FF, \h6F00, \h6F5A }
RegisterRoms ==
    { << \h6FAA, \h61F0, \h623C, \hA123, w >> : w \in RegisterOps }

\* The bytes memory has room for after the program entry.
programSpace == memorySize - programEntryOffset

\* A ROM file of len bytes: a jump to 0xFFE first, and at 0xFFE a skip that
\* is taken, which leaves pc past the end of memory.
FillRom(len) ==
    [k \in 1..len |->
        IF k = 1 THEN \h1F
        ELSE IF k = 2 THEN \hFE
        ELSE IF k = programSpace - 1 THEN \h30
        ELSE IF k = programSpace THEN 0
        ELSE (k % 255) + 1]

\* The empty file, a file that fills the program space to its last byte,
\* and files one and two bytes longer.
LongRoms ==
    { << >>, FillRom(programSpace), FillRom(programSpace + 1),
      FillRom(programSpace + 2) }

\* Two-byte ROM files: every high byte with four low bytes, and every low
\* byte with four high bytes, so that each field of the opcode takes each
\* of its values.
DecodeLowSamples == { \h00, \h5A, \hA5, \hFF }
DecodeHighSamples == { \h00, \h3A, \h95, \hFF }
WordRoms ==
    { << hi, lo >> : hi \in 0..(Uint8Mod - 1), lo \in DecodeLowSamples }
      \cup { << hi, lo >> : hi \in DecodeHighSamples, lo \in 0..(Uint8Mod - 1) }

Roms ==
    { Bytes(ws) : ws \in SampleRoms \cup DrawRoms \cup KeyRoms \cup CallRoms
                          \cup StackRoms \cup MemRoms \cup BlockRoms
                          \cup SkipRoms \cup JumpRoms \cup ClearRoms
                          \cup ShiftRoms \cup AddRoms \cup TimerRoms
                          \cup ClipRoms \cup RegisterRoms }
      \cup LongRoms

\* The physical keys events come for; SCANCODE_A is bound to no key.
Scancodes == { "SCANCODE_7", "SCANCODE_SLASH", "SCANCODE_A" }

Events ==
    { [type |-> "QUIT", scancode |-> ""] }
      \cup [type : {"KEYDOWN", "KEYUP"}, scancode : Scancodes]

EventSeqs == UNION { [1..len -> Events] : len \in 0..MaxPollEvents }

(***************************************************************************)
(* The program: main builds the machine, loads the ROM and calls Run.      *)
(*   chip       the machine (mem, cpu, display) and how the process ended  *)
(*   keys       Chip8.keys, the state of each logical key                  *)
(*   isRunning  Chip8.isRunning                                            *)
(*   cycles     the local counter of Run                                   *)
(*   at         where main is: "main" before LoadRom, then in Run at the   *)
(*              "loop" test, the "vblank" block or the "poll" call, and    *)
(*              "returned" once Run has returned                           *)
(*   romdata    the bytes of the ROM file LoadRom read, empty before        *)
(*   activeCalls  history: for each call not yet returned from, the        *)
(*              address after the call instruction and the stack pointer   *)
(*              the call found, innermost last; no action reads it         *)
(***************************************************************************)
VARIABLES chip, keys, isRunning, cycles, at, romdata, activeCalls

vars == << chip, keys, isRunning, cycles, at, romdata, activeCalls >>

vBlankTime == chip8frequency \div VBlankFreq

Init ==
    /\ chip = NewChip8
    /\ keys = [k \in 0..(numKeys - 1) |-> 0]
    /\ isRunning = TRUE
    /\ cycles = 0
    /\ at = "main"
    /\ romdata = << >>
    /\ activeCalls = << >>

Alive == chip.exit = "none"

\* main: chip8.LoadRom(path) on one of the given ROM files, then
\* chip8.Run() up to its loop.
MainLoadRomOf(roms) ==
    /\ Alive /\ at = "main"
    /\ \E file \in roms :
          /\ romdata' = file
          /\ chip' = LoadRom(chip, file)
          /\ at' = IF chip'.exit = "none" THEN "loop" ELSE "main"
    /\ UNCHANGED << keys, isRunning, cycles, activeCalls >>

MainLoadRom == MainLoadRomOf(Roms)

\* main started on a ROM that waits for a key.
MainLoadKeyRom == MainLoadRomOf({ Bytes(ws) : ws \in KeyRoms })

\* The random bytes CXNN may draw; no other instruction draws one.
RandomBytes ==
    LET f == getNextInstruction(chip)
    IN  IF f.exit = "none" /\ family(f.cpu.opcode) = \hC000
        THEN 0..(Uint8Mod - 1) ELSE {0}

\* What the cycle does to the history of calls.
CallsAfter(c1) ==
    IF getNextInstruction(chip).exit # "none" THEN activeCalls
    ELSE IF family(c1.cpu.opcode) = \h2000 /\ c1.exit = "none"
         THEN Append(activeCalls, [ret |-> (chip.cpu.pc + 2) % Uint16Mod,
                                   sp |-> chip.cpu.sp])
    ELSE IF c1.cpu.opcode = \h00EE /\ activeCalls # << >>
         THEN SubSeq(activeCalls, 1, Len(activeCalls) - 1)
    ELSE activeCalls

\* A variant of RunCycle whose loop does not test isRunning.
RunCycleIgnoresQuit ==
    /\ Alive /\ at = "loop"
    /\ \E rnd \in RandomBytes :
          /\ chip' = cycle(chip, keys, rnd)
          /\ activeCalls' = CallsAfter(chip')
    /\ cycles' = cycles + 1
    /\ at' = IF chip'.exit # "none" THEN "loop"
             ELSE IF cycles' > vBlankTime THEN "vblank" ELSE "poll"
    /\ UNCHANGED << keys, isRunning, romdata >>

\* Run, one pass of the loop up to the v-blank test: cycles++, c.cycle().
RunCycle ==
    /\ Alive /\ at = "loop" /\ isRunning
    /\ \E rnd \in RandomBytes :
          /\ chip' = cycle(chip, keys, rnd)
          /\ activeCalls' = CallsAfter(chip')
    /\ cycles' = cycles + 1
    /\ at' = IF chip'.exit # "none" THEN "loop"
             ELSE IF cycles' > vBlankTime THEN "vblank" ELSE "poll"
    /\ UNCHANGED << keys, isRunning, romdata >>

\* Run, the v-blank block: cycles = 0, renderDisplay (which only reads the
\* display), the sleep, decrementTimers.
RunVBlank ==
    /\ Alive /\ at = "vblank"
    /\ cycles' = 0
    /\ chip' = decrementTimers(chip)
    /\ at' = "poll"
    /\ UNCHANGED << keys, isRunning, romdata, activeCalls >>

\* Run, the end of the pass: c.pollSdlEvents().
RunPoll ==
    /\ Alive /\ at = "poll"
    /\ \E out \in { pollSdlEvents([keys |-> keys, isRunning |-> isRunning], evs) :
                      evs \in EventSeqs } :
          /\ keys' = out.keys
          /\ isRunning' = out.isRunning
    /\ at' = "loop"
    /\ UNCHANGED << chip, cycles, romdata, activeCalls >>

\* Run returns when the loop test finds isRunning false.
RunReturn ==
    /\ Alive /\ at = "loop" /\ ~isRunning
    /\ at' = "returned"
    /\ UNCHANGED << chip, keys, isRunning, cycles, romdata, activeCalls >>

Next == MainLoadRom \/ RunCycle \/ RunVBlank \/ RunPoll \/ RunReturn

Spec == Init /\ [][Next]_vars

\* main is sequential code on one thread: while the process lives, the step
\* it has reached is taken.
KeyNext == MainLoadKeyRom \/ RunCycle \/ RunVBlank \/ RunPoll \/ RunReturn

FairKeySpec == Init /\ [][KeyNext]_vars /\ WF_vars(KeyNext)

\* main started on a two-byte ROM, and the first pass of the loop of Run
\* up to its call of cycle(): the opcode is fetched, decoded and executed.
MainLoadWordRom == MainLoadRomOf(WordRoms)

RunFirstCycle == cycles = 0 /\ RunCycle

DecodeNext == MainLoadWordRom \/ RunFirstCycle

DecodeSpec == Init /\ [][DecodeNext]_vars

(***************************************************************************)
(* Properties.                                                             *)
(***************************************************************************)
\* The loop is about to call cycle(), and the two bytes at pc are in memory.
Fetching ==
    /\ Alive /\ at = "loop" /\ isRunning
    /\ chip.cpu.pc + 1 < memorySize

\* The opcode at pc, big-endian.
OpcodeAtPC == chip.mem[chip.cpu.pc] * 256 + chip.mem[chip.cpu.pc + 1]

IsJump(oc) == oc \div 4096 = 1
IsCall(oc) == oc \div 4096 = 2
IsReturn(oc) == oc = \h00EE
IsSkip(oc) ==
    \/ oc \div 4096 \in {3, 4, 5, 9}
    \/ oc \div 4096 = 14 /\ oc % 256 \in {\h9E, \hA1}
IsKeyWait(oc) == oc \div 4096 = 15 /\ oc % 256 = \h0A
IsDraw(oc) == oc \div 4096 = 13

\* The opcodes the dispatch has a case for.
KnownOpcode(oc) ==
    \/ oc \div 4096 \in {1, 2, 3, 4, 5, 6, 7, 9, 10, 12, 13}
    \/ oc \in {\h00E0, \h00EE}
    \/ oc \div 4096 = 8 /\ oc % 16 \in (0..7) \cup {14}
    \/ oc \div 4096 = 14 /\ oc % 256 \in {\h9E, \hA1}
    \/ oc \div 4096 = 15
         /\ oc % 256 \in {\h07, \h0A, \h15, \h18, \h1E, \h29, \h33, \h55, \h65}

\* The machine as one instruction leaves it, run on the opcode oc with the
\* program counter already at next.
AfterOne(oc, next) ==
    { executeInstruction([chip EXCEPT !.cpu.opcode = oc, !.cpu.pc = next],
                         keys, rnd) : rnd \in RandomBytes }

\* C1: one cycle() started at P (P+1 in memory) fetches mem[P]*256 +
\* mem[P+1], moves pc to P+2 before the instruction runs (a call stores
\* P+2), runs exactly one instruction on it, and leaves pc at P+2 unless
\* the instruction is a jump, call, return, skip or key-wait.
C1_CycleFetchesAdvancesExecutes ==
    [][ Fetching =>
          LET P == chip.cpu.pc
              oc == OpcodeAtPC
          IN  /\ chip'.cpu.opcode = oc
              /\ chip' \in AfterOne(oc, P + 2)
              /\ (IsCall(oc) /\ chip'.exit = "none"
                    => chip'.cpu.stack[chip.cpu.sp] = P + 2)
              /\ (~(IsJump(oc) \/ IsCall(oc) \/ IsReturn(oc) \/ IsSkip(oc)
                      \/ IsKeyWait(oc))
                    => chip'.cpu.pc = P + 2) ]_vars

\* 7XF0 at 0x204 has run: V1 = (0xA7 + 0xF0) mod 256 and pc = 0x206.
C1_Witness ==
    /\ Alive /\ at = "poll"
    /\ chip.cpu.opcode = \h71F0 /\ chip.cpu.pc = \h206
    /\ chip.cpu.v[1] = \h97

\* C2: a cycle that fetches an opcode of no case of the dispatch ends the
\* process with the fatal exit, leaves V, I, the stack, the stack pointer,
\* memory and the display as they were, and nothing runs after an exit.
C2_UnknownOpcodeHalts ==
    [][ /\ (Fetching /\ ~KnownOpcode(OpcodeAtPC) =>
              /\ chip'.exit = "fatal"
              /\ chip'.cpu.v = chip.cpu.v /\ chip'.cpu.i = chip.cpu.i
              /\ chip'.cpu.stack = chip.cpu.stack /\ chip'.cpu.sp = chip.cpu.sp
              /\ chip'.mem = chip.mem /\ chip'.display = chip.display)
        /\ (~Alive => vars' = vars) ]_vars

\* BNNN, a family the dispatch has no case for, ended the process.
C2_Witness == chip.exit = "fatal" /\ chip.cpu.opcode = \hB123

\* C3: when an unknown opcode fetched at P ends the process, what is
\* reported holds the program counter P and the raw opcode.
C3_HaltReportsPCAndOpcode ==
    chip.exit = "fatal" =>
        /\ "opcode" \in DOMAIN chip.logged
        /\ chip.logged.opcode = chip.cpu.opcode
        /\ "pc" \in DOMAIN chip.logged
        /\ chip.logged.pc = chip.cpu.pc - 2

\* C4: DXYN XORs sprite bit (r, c), r < n and c < 8, into the display cell
\* (Vy + r) * 64 + (Vx + c), Vx and Vy being the values the registers hold.
C4_DrawAtRegisterValues ==
    [][ Fetching /\ IsDraw(OpcodeAtPC) =>
          LET oc == OpcodeAtPC
              vx == chip.cpu.v[x(oc)]
              vy == chip.cpu.v[y(oc)]
          IN  \A r \in 0..(n(oc) - 1), col \in 0..7 :
                 /\ vy + r < Chip8Height /\ vx + col < Chip8Width
                 /\ chip.cpu.i + r < memorySize
                 => chip'.display[(vy + r) * Chip8Width + (vx + col)]
                      = (chip.display[(vy + r) * Chip8Width + (vx + col)]
                           + Bit(chip.mem[chip.cpu.i + r], 7 - col)) % 2 ]_vars

\* C5: after DXYN, VF is 1 when some display pixel went from 1 to 0 during
\* the draw, and 0 otherwise.
C5_DrawFlagIsAnyCollision ==
    [][ Fetching /\ IsDraw(OpcodeAtPC) /\ chip'.exit = "none" =>
          chip'.cpu.v[15] =
              IF \E p \in DOMAIN chip.display :
                     chip.display[p] = 1 /\ chip'.display[p] = 0
              THEN 1 ELSE 0 ]_vars

\* C6: after a draw, the same draw instruction executed again on the
\* machine as the first left it (same I, sprite bytes and registers) gives
\* back the display as it was before the first draw, and reports VF = 1
\* when the first draw left a pixel of the sprite set.
C6_DrawTwiceRestores ==
    [][ Fetching /\ IsDraw(OpcodeAtPC) /\ chip'.exit = "none" =>
          LET again == ExecDXYN(chip')
          IN  /\ again.display = chip.display
              /\ ((\E p \in DOMAIN chip.display :
                      chip.display[p] = 0 /\ chip'.display[p] = 1)
                    => again.cpu.v[15] = 1) ]_vars

\* No key is pressed.
NoKeyDown == \A k \in DOMAIN keys : keys[k] = 0

\* The machine waits for a key at its program counter.
WaitingAtPC ==
    /\ Alive /\ chip.cpu.pc + 1 < memorySize
    /\ IsKeyWait(OpcodeAtPC)

\* C7: FX0A run at P with no key pressed ends the cycle with pc = P and
\* with V, I, the stack, the stack pointer, memory and the display as they
\* were; and while no key is pressed, a machine waiting at P stays waiting
\* at P whatever the driver does.
C7_KeyWaitBlocks ==
    [][ /\ (Fetching /\ IsKeyWait(OpcodeAtPC) /\ NoKeyDown =>
              /\ chip'.exit = "none"
              /\ chip'.cpu.pc = chip.cpu.pc
              /\ chip'.cpu.v = chip.cpu.v /\ chip'.cpu.i = chip.cpu.i
              /\ chip'.cpu.stack = chip.cpu.stack /\ chip'.cpu.sp = chip.cpu.sp
              /\ chip'.mem = chip.mem /\ chip'.display = chip.display)
        /\ (WaitingAtPC /\ NoKeyDown /\ NoKeyDown' =>
              /\ WaitingAtPC'
              /\ chip'.cpu.pc = chip.cpu.pc) ]_vars

\* FF0A at 0x202 was run at least twice in a row and still waits.
C7_Witness ==
    /\ Alive /\ at = "poll" /\ NoKeyDown
    /\ chip.cpu.opcode = \hFF0A /\ chip.cpu.pc = \h202
    /\ cycles >= 3

\* C8: FX0A run at P with a key pressed puts the lowest pressed key index
\* in Vx, changes no other register and ends the cycle with pc = P + 2.
C8_KeyWaitTakesLowestKey ==
    [][ Fetching /\ IsKeyWait(OpcodeAtPC) /\ ~NoKeyDown =>
          LET rx == x(OpcodeAtPC)
          IN  /\ chip'.exit = "none"
              /\ keys[chip'.cpu.v[rx]] = 1
              /\ \A k \in DOMAIN keys : keys[k] = 1 => chip'.cpu.v[rx] <= k
              /\ \A r \in DOMAIN chip.cpu.v :
                     r # rx => chip'.cpu.v[r] = chip.cpu.v[r]
              /\ chip'.cpu.i = chip.cpu.i
              /\ chip'.cpu.pc = chip.cpu.pc + 2 ]_vars

\* With keys 1 and F both pressed, F30A at 0x202 put 1 in V3.
C8_Witness ==
    /\ Alive /\ chip.cpu.opcode = \hF30A /\ chip.cpu.pc = \h204
    /\ keys[1] = 1 /\ keys[15] = 1
    /\ chip.cpu.v[3] = 1

\* The addresses at which a ROM of KeyRoms holds a key-wait instruction.
WaitAddrs ==
    UNION { { programEntryOffset + 2 * (k - 1) :
                k \in { j \in DOMAIN ws : IsKeyWait(ws[j]) } } :
            ws \in KeyRoms }

\* C9: under the driver loop, a machine about to run FX0A at P while a key
\* is pressed gets to pc = P + 2 with a pressed key's index in Vx.
C9_KeyWaitCompletes ==
    \A P \in WaitAddrs :
        (Fetching /\ chip.cpu.pc = P /\ IsKeyWait(OpcodeAtPC) /\ ~NoKeyDown)
          ~> /\ chip.cpu.pc = P + 2
             /\ IsKeyWait(chip.cpu.opcode)
             /\ chip.cpu.v[x(chip.cpu.opcode)] \in DOMAIN keys
             /\ keys[chip.cpu.v[x(chip.cpu.opcode)]] = 1

\* F30A at 0x202 blocked at least once and then completed on a pressed key.
C9_Witness ==
    /\ Alive /\ at = "poll" /\ cycles >= 3
    /\ chip.cpu.opcode = \hF30A /\ chip.cpu.pc = \h204
    /\ chip.cpu.v[3] \in DOMAIN keys /\ keys[chip.cpu.v[3]] = 1

\* C10: a call fetched at P with stack pointer s < 16 stores P + 2 in
\* stack[s], sets the stack pointer to s + 1 and pc to NNN, touching no
\* other slot; a return sets pc to the address after the innermost call
\* not yet returned from and the stack pointer to the value that call
\* found.
C10_CallReturnLIFO ==
    [][ Fetching =>
          LET oc == OpcodeAtPC
              P == chip.cpu.pc
              s == chip.cpu.sp
          IN  /\ (IsCall(oc) /\ s < stackDepth =>
                    /\ chip'.exit = "none"
                    /\ chip'.cpu.stack[s] = P + 2
                    /\ \A j \in DOMAIN chip.cpu.stack :
                           j # s => chip'.cpu.stack[j] = chip.cpu.stack[j]
                    /\ chip'.cpu.sp = s + 1
                    /\ chip'.cpu.pc = nnn(oc))
              /\ (IsReturn(oc) /\ activeCalls # << >> =>
                    /\ chip'.exit = "none"
                    /\ chip'.cpu.pc = activeCalls[Len(activeCalls)].ret
                    /\ chip'.cpu.sp = activeCalls[Len(activeCalls)].sp) ]_vars

\* The return of the 16th nested call has run: 15 calls are still open.
C10_Witness ==
    /\ Alive /\ chip.cpu.opcode = \h00EE
    /\ Len(activeCalls) = stackDepth - 1 /\ chip.cpu.sp = stackDepth - 1
    /\ chip.cpu.pc = chip.cpu.stack[stackDepth - 1]
    /\ chip.cpu.pc = programEntryOffset + 4 * (stackDepth - 1) + 2

\* C11: in every state the program reaches, the stack pointer is between 0
\* and the stack depth 16; it never wraps (to 255) and never exceeds 16.
C11_StackPointerInRange == chip.cpu.sp \in 0..stackDepth

\* C12: a call run with stack pointer below 16 succeeds; a call run with
\* stack pointer 16 ends the process, leaves all 16 stored return addresses
\* and the stack pointer as they were, and does not set pc to the target:
\* pc stays at the address after the call.
C12_StackOverflowHalts ==
    [][ Fetching /\ IsCall(OpcodeAtPC) =>
          IF chip.cpu.sp < stackDepth
          THEN chip'.exit = "none" /\ chip'.cpu.sp = chip.cpu.sp + 1
          ELSE /\ chip'.exit # "none"
               /\ chip'.cpu.stack = chip.cpu.stack
               /\ chip'.cpu.sp = chip.cpu.sp
               /\ chip'.cpu.pc = chip.cpu.pc + 2 ]_vars

\* The 17th call of a routine that calls itself ended the process: the 16
\* slots hold the return address 0x202 and pc is 0x202, not the target.
C12_Witness ==
    /\ chip.exit = "panic" /\ chip.cpu.opcode = \h2200
    /\ chip.cpu.sp = stackDepth /\ Len(activeCalls) = stackDepth
    /\ \A j \in DOMAIN chip.cpu.stack : chip.cpu.stack[j] = \h202
    /\ chip.cpu.pc = \h202

\* C13: a return run with stack pointer 0 ends the process; pc is not
\* loaded from a stack slot (it stays at the address after the return), V,
\* I, the stack, memory and the display are as they were, and no step
\* follows.
C13_StackUnderflowHalts ==
    [][ /\ (Fetching /\ IsReturn(OpcodeAtPC) /\ chip.cpu.sp = 0 =>
              /\ chip'.exit # "none"
              /\ chip'.cpu.pc = chip.cpu.pc + 2
              /\ chip'.cpu.stack = chip.cpu.stack
              /\ chip'.cpu.v = chip.cpu.v /\ chip'.cpu.i = chip.cpu.i
              /\ chip'.mem = chip.mem /\ chip'.display = chip.display)
        /\ (chip.exit # "none" /\ chip.cpu.opcode = \h00EE => vars' = vars)
      ]_vars

\* After 16 nested calls and their 16 returns, the return at 0x202 found
\* the stack empty and ended the process: pc is 0x204, and slot 0 still
\* holds 0x202.
C13_Witness ==
    /\ chip.exit = "panic" /\ chip.cpu.opcode = \h00EE
    /\ activeCalls = << >>
    /\ chip.cpu.pc = \h204 /\ chip.cpu.stack[0] = \h202
    /\ chip.cpu.stack[stackDepth - 1] = programEntryOffset + 4 * stackDepth - 2

\* C14: loading a ROM file longer than memorySize - programEntryOffset
\* (3584 bytes) ends the process, and memory is then byte for byte what it
\* was before the load.
C14_OversizeRomRejectedUntouched ==
    [][ at = "main" /\ Len(romdata') > programSpace =>
          /\ chip'.exit # "none"
          /\ chip'.mem = chip.mem ]_vars

\* C15: loading a ROM file of L <= 3584 bytes succeeds, sets
\* mem[0x200 + i] to byte i of the file for every i < L and leaves every
\* other byte of memory as it was; 0x000..0x1FF still hold what
\* construction put there.
C15_LoadRomCopiesAtEntry ==
    [][ at = "main" /\ Len(romdata') <= programSpace =>
          /\ chip'.exit = "none"
          /\ \A a \in 0..(memorySize - 1) :
                 chip'.mem[a] =
                     IF a >= programEntryOffset
                          /\ a - programEntryOffset < Len(romdata')
                     THEN romdata'[a - programEntryOffset + 1]
                     ELSE chip.mem[a]
          /\ \A a \in 0..(programEntryOffset - 1) :
                 chip'.mem[a] = NewMemory[a] ]_vars

\* The file of exactly 3584 bytes is loaded: its first byte is at 0x200,
\* its last two at 0xFFE and 0xFFF, and the font bytes are in place.
C15_Witness ==
    /\ Alive /\ at = "loop" /\ Len(romdata) = programSpace
    /\ chip.mem[programEntryOffset] = \h1F
    /\ chip.mem[memorySize - 2] = \h30 /\ chip.mem[memorySize - 3] # 0
    /\ chip.mem[programEntryOffset - 1] = 0
    /\ chip.mem[characterSpritesOffset] = characterSprites[1]

\* The machine as construction leaves it: main has not loaded a ROM yet.
Constructed == at = "main" /\ romdata = << >>

\* C16: construction gives pc = 0x200, I = 0, stack pointer 0, the 16 V
\* registers 0, the 16 stack slots 0, both timers 0, every display cell 0,
\* every key 0, the character sprites in memory from the font offset on
\* and 0 in every other byte, the program area included.
C16_InitialState ==
    Constructed =>
        /\ chip.cpu.pc = \h200 /\ chip.cpu.i = 0 /\ chip.cpu.sp = 0
        /\ DOMAIN chip.cpu.v = 0..15
        /\ \A r \in 0..15 : chip.cpu.v[r] = 0
        /\ DOMAIN chip.cpu.stack = 0..15
        /\ \A j \in 0..15 : chip.cpu.stack[j] = 0
        /\ chip.cpu.dt = 0 /\ chip.cpu.st = 0
        /\ DOMAIN chip.display = 0..(64 * 32 - 1)
        /\ \A p \in DOMAIN chip.display : chip.display[p] = 0
        /\ DOMAIN keys = 0..15
        /\ \A k \in DOMAIN keys : keys[k] = 0
        /\ DOMAIN chip.mem = 0..4095
        /\ \A k \in 1..Len(characterSprites) :
               chip.mem[characterSpritesOffset + k - 1] = characterSprites[k]
        /\ \A a \in DOMAIN chip.mem :
               (a < characterSpritesOffset
                  \/ a >= characterSpritesOffset + Len(characterSprites))
               => chip.mem[a] = 0
        /\ \A a \in \h200..(memorySize - 1) : chip.mem[a] = 0
        /\ chip.exit = "none"

\* The constructed machine, before main loads the ROM: the sprite of 0
\* starts at the font offset, the sprite of F ends 80 bytes later.
C16_Witness ==
    /\ Constructed /\ isRunning /\ cycles = 0
    /\ chip.cpu.pc = programEntryOffset
    /\ chip.mem[characterSpritesOffset] = \hF0
    /\ chip.mem[characterSpritesOffset + 16 * characterSpriteBytes - 1] = \h80

IsBlockStore(oc) == oc \div 4096 = 15 /\ oc % 256 = \h55
IsBlockLoad(oc) == oc \div 4096 = 15 /\ oc % 256 = \h65

\* The rows of the display in which a cell differs between two displays.
ChangedRows(d1, d2) ==
    { p \div Chip8Width : p \in { q \in DOMAIN d1 : d1[q] # d2[q] } }

\* C17: an access past the end of memory ends the process and goes to no
\* wrapped or clamped address.  A fetch with pc + 1 >= 4096 ends it with
\* nothing changed; FX55 with I + x >= 4096 ends it having stored only the
\* registers whose address I + r is in memory, at that address; FX65 with
\* I + x >= 4096 ends it having loaded only those registers, from that
\* address; a draw with I + n > 4096 ends it having drawn at most the
\* 4096 - I sprite rows that are in memory.
C17_OutOfRangeAccessHalts ==
    [][ /\ (Alive /\ at = "loop" /\ isRunning /\ chip.cpu.pc + 1 >= memorySize =>
              /\ chip'.exit # "none"
              /\ chip' = [chip EXCEPT !.exit = chip'.exit])
        /\ (Fetching /\ IsBlockStore(OpcodeAtPC)
               /\ chip.cpu.i + x(OpcodeAtPC) >= memorySize =>
              /\ chip'.exit # "none"
              /\ \A a \in DOMAIN chip.mem :
                     chip'.mem[a] =
                         IF a >= chip.cpu.i /\ a <= chip.cpu.i + x(OpcodeAtPC)
                         THEN chip.cpu.v[a - chip.cpu.i] ELSE chip.mem[a])
        /\ (Fetching /\ IsBlockLoad(OpcodeAtPC)
               /\ chip.cpu.i + x(OpcodeAtPC) >= memorySize =>
              /\ chip'.exit # "none"
              /\ chip'.mem = chip.mem
              /\ \A r \in DOMAIN chip.cpu.v :
                     chip'.cpu.v[r] =
                         IF r <= x(OpcodeAtPC) /\ chip.cpu.i + r < memorySize
                         THEN chip.mem[chip.cpu.i + r] ELSE chip.cpu.v[r])
        /\ (Fetching /\ IsDraw(OpcodeAtPC)
               /\ chip.cpu.i + n(OpcodeAtPC) > memorySize =>
              /\ chip'.exit # "none"
              /\ chip'.mem = chip.mem
              /\ \A r1, r2 \in ChangedRows(chip.display, chip'.display) :
                     r1 - r2 < memorySize - chip.cpu.i) ]_vars

\* F155 with I = 0xFFF ended the process: V0 is stored at 0xFFF, V1 went
\* nowhere (address 0 still holds 0), and I was not advanced.
C17_Witness ==
    /\ chip.exit = "panic" /\ chip.cpu.opcode = \hF155
    /\ chip.cpu.i = memorySize - 1
    /\ chip.cpu.v[0] = \hAB /\ chip.cpu.v[1] = \h05
    /\ chip.mem[memorySize - 1] = \hAB /\ chip.mem[0] = 0

\* C18: with I + x < 4096, FX55 stores V0..Vx at mem[I..I+x], changes no
\* other byte and no register, and leaves I = I + x + 1; FX65 with the
\* same x, run on the machine the store left with I set back and V0..Vx
\* cleared, gives V0..Vx the stored values again and leaves I = I + x + 1;
\* and every FX65 loads V0..Vx from mem[I..I+x], changes no other register
\* and leaves I = I + x + 1.
C18_BlockStoreLoadRoundTrip ==
    [][ Fetching =>
          LET oc == OpcodeAtPC
              rx == x(oc)
              I == chip.cpu.i
          IN  /\ (IsBlockStore(oc) /\ I + rx < memorySize =>
                    /\ chip'.exit = "none"
                    /\ \A a \in DOMAIN chip.mem :
                           chip'.mem[a] = IF a >= I /\ a <= I + rx
                                          THEN chip.cpu.v[a - I] ELSE chip.mem[a]
                    /\ chip'.cpu.v = chip.cpu.v
                    /\ chip'.cpu.i = I + rx + 1
                    /\ LET back == ExecFX65(
                                [chip' EXCEPT
                                   !.cpu.i = I,
                                   !.cpu.v = [r \in DOMAIN chip.cpu.v |->
                                                IF r <= rx THEN 0 ELSE chip.cpu.v[r]],
                                   !.cpu.opcode = \hF065 + rx * 256])
                       IN  /\ back.exit = "none"
                           /\ back.cpu.v = chip.cpu.v
                           /\ back.cpu.i = I + rx + 1)
              /\ (IsBlockLoad(oc) /\ I + rx < memorySize =>
                    /\ chip'.exit = "none"
                    /\ \A r \in DOMAIN chip.cpu.v :
                           chip'.cpu.v[r] = IF r <= rx THEN chip.mem[I + r]
                                            ELSE chip.cpu.v[r]
                    /\ chip'.mem = chip.mem
                    /\ chip'.cpu.i = I + rx + 1) ]_vars

\* V0..VF were stored at 0xFF0..0xFFF, cleared, and loaded back by FF65:
\* the registers hold the first values again and I is 0x1000.
C18_Witness ==
    /\ Alive /\ chip.cpu.opcode = \hFF65
    /\ chip.cpu.pc = programEntryOffset + 2 * Len(BlockRom(15, \hFF0))
    /\ chip.cpu.i = memorySize
    /\ chip.cpu.v[0] = \h11 /\ chip.cpu.v[1] = \h22 /\ chip.cpu.v[2] = \h33
    /\ chip.cpu.v[3] = \h44 /\ chip.cpu.v[4] = 0 /\ chip.cpu.v[15] = \hEE
    /\ chip.mem[memorySize - 1] = \hEE /\ chip.mem[memorySize - 16] = \h11

IsSkipIfEqual(oc) == oc \div 4096 = 3

\* C19: 3XNN fetched at P ends the cycle with pc = P + 4 when Vx = NN and
\* with pc = P + 2 when Vx # NN, and changes no register (V, I, the stack,
\* the stack pointer, the timers), nor memory, nor the display.
C19_SkipIfEqual ==
    [][ Fetching /\ IsSkipIfEqual(OpcodeAtPC) =>
          /\ chip'.exit = "none"
          /\ chip'.cpu.pc = IF chip.cpu.v[x(OpcodeAtPC)] = nn(OpcodeAtPC)
                            THEN chip.cpu.pc + 4 ELSE chip.cpu.pc + 2
          /\ chip'.cpu.v = chip.cpu.v /\ chip'.cpu.i = chip.cpu.i
          /\ chip'.cpu.stack = chip.cpu.stack /\ chip'.cpu.sp = chip.cpu.sp
          /\ chip'.cpu.dt = chip.cpu.dt /\ chip'.cpu.st = chip.cpu.st
          /\ chip'.mem = chip.mem /\ chip'.display = chip.display ]_vars

\* 3FFF at 0x202 found VF = 0xFF and skipped: pc is 0x206.
C19_Witness ==
    /\ Alive /\ chip.cpu.opcode = \h3FFF
    /\ chip.cpu.v[15] = \hFF /\ chip.cpu.pc = \h206

\* C20: 1NNN ends the cycle with pc = NNN whatever pc was, and changes
\* nothing else: V, I, the stack, the stack pointer, the timers, memory
\* and the display are as they were.
C20_JumpSetsPC ==
    [][ Fetching /\ IsJump(OpcodeAtPC) =>
          /\ chip'.exit = "none"
          /\ chip'.cpu.pc = nnn(OpcodeAtPC)
          /\ chip'.cpu.v = chip.cpu.v /\ chip'.cpu.i = chip.cpu.i
          /\ chip'.cpu.stack = chip.cpu.stack /\ chip'.cpu.sp = chip.cpu.sp
          /\ chip'.cpu.dt = chip.cpu.dt /\ chip'.cpu.st = chip.cpu.st
          /\ chip'.mem = chip.mem /\ chip'.display = chip.display ]_vars

\* 1FFF at 0x204, after two register loads, set pc to 0xFFF.
C20_Witness ==
    /\ Alive /\ chip.cpu.opcode = \h1FFF /\ chip.cpu.pc = \hFFF
    /\ chip.cpu.v[1] = \hA7 /\ chip.cpu.v[2] = \h35

IsClear(oc) == oc = \h00E0
IsShiftRight(oc) == oc \div 4096 = 8 /\ oc % 16 = 6
IsShiftLeft(oc) == oc \div 4096 = 8 /\ oc % 16 = 14
IsAddImmediate(oc) == oc \div 4096 = 7

\* C21: 00E0 sets every one of the 64 * 32 display cells to 0 whatever the
\* display held, which is the display construction gave; it changes no
\* register, no memory byte and no stack slot.
C21_ClearZeroesDisplay ==
    [][ Fetching /\ IsClear(OpcodeAtPC) =>
          /\ chip'.exit = "none"
          /\ DOMAIN chip'.display = 0..(64 * 32 - 1)
          /\ \A p \in 0..(64 * 32 - 1) : chip'.display[p] = 0
          /\ chip'.display = NewChip8.display
          /\ chip'.cpu.v = chip.cpu.v /\ chip'.cpu.i = chip.cpu.i
          /\ chip'.cpu.stack = chip.cpu.stack /\ chip'.cpu.sp = chip.cpu.sp
          /\ chip'.cpu.dt = chip.cpu.dt /\ chip'.cpu.st = chip.cpu.st
          /\ chip'.cpu.pc = chip.cpu.pc + 2
          /\ chip'.mem = chip.mem ]_vars

\* After a clear and two draws that set pixels, the second clear at 0x208
\* has run: the display is all 0 again.
C21_Witness ==
    /\ Alive /\ chip.cpu.opcode = \h00E0 /\ chip.cpu.pc = \h20A
    /\ chip.mem[\h206] = \hD1 /\ chip.mem[\h207] = \h25
    /\ \A p \in DOMAIN chip.display : chip.display[p] = 0

\* C23: with x # 0xF, 8XY6 gives Vx = Vy / 2 and VF = the low bit of the
\* prior Vy; 8XYE gives Vx = (Vy * 2) mod 256 and VF = the high bit of the
\* prior Vy.
C23_ShiftFlagFromSource ==
    [][ Fetching /\ (IsShiftRight(OpcodeAtPC) \/ IsShiftLeft(OpcodeAtPC))
          /\ x(OpcodeAtPC) # 15 =>
          LET vy == chip.cpu.v[y(OpcodeAtPC)]
          IN  IF IsShiftRight(OpcodeAtPC)
              THEN /\ chip'.cpu.v[x(OpcodeAtPC)] = vy \div 2
                   /\ chip'.cpu.v[15] = vy % 2
              ELSE /\ chip'.cpu.v[x(OpcodeAtPC)] = (vy * 2) % 256
                   /\ chip'.cpu.v[15] = vy \div 128 ]_vars

\* C24: 7XNN sets Vx to (Vx + NN) mod 256, never ends the process, changes
\* no other register, and so leaves VF as it was when x # 0xF.
C24_AddImmediateWraps ==
    [][ Fetching /\ IsAddImmediate(OpcodeAtPC) =>
          LET rx == x(OpcodeAtPC)
          IN  /\ chip'.exit = "none"
              /\ chip'.cpu.v[rx] = (chip.cpu.v[rx] + nn(OpcodeAtPC)) % 256
              /\ \A r \in 0..15 : r # rx => chip'.cpu.v[r] = chip.cpu.v[r]
              /\ (rx # 15 => chip'.cpu.v[15] = chip.cpu.v[15])
              /\ chip'.cpu.pc = chip.cpu.pc + 2 ]_vars

\* 7BFF at 0x204 added 0xFF to VB = 1: VB wrapped to 0 and VF still holds
\* 0xAA.
C24_Witness ==
    /\ Alive /\ chip.cpu.opcode = \h7BFF /\ chip.cpu.pc = \h206
    /\ chip.cpu.v[11] = 0 /\ chip.cpu.v[15] = \hAA

\* C22: for the 16-bit value w that was fetched, x, y and n are in 0..15,
\* nn in 0..255, nnn in 0..4095, w = (w / 4096) * 4096 + x * 256 + y * 16
\* + n, nn = y * 16 + n and nnn = x * 256 + nn; and the instruction ran on
\* these fields: 6XNN left NN in Vx, ANNN left NNN in I.
C22_DecodeLossless ==
    LET w == chip.cpu.opcode
    IN  /\ w \in 0..65535
        /\ x(w) \in 0..15 /\ y(w) \in 0..15 /\ n(w) \in 0..15
        /\ nn(w) \in 0..255 /\ nnn(w) \in 0..4095
        /\ w = (w \div 4096) * 4096 + x(w) * 256 + y(w) * 16 + n(w)
        /\ nn(w) = y(w) * 16 + n(w)
        /\ nnn(w) = x(w) * 256 + nn(w)
        /\ (w \div 4096 = 6 => chip.cpu.v[(w \div 256) % 16] = w % 256)
        /\ (w \div 4096 = 10 => chip.cpu.i = w % 4096)

\* 0x6A5A was fetched and run: VA holds 0x5A.
C22_Witness ==
    /\ Alive /\ at = "poll" /\ chip.cpu.opcode = \h6A5A
    /\ x(chip.cpu.opcode) = 10 /\ y(chip.cpu.opcode) = 5
    /\ n(chip.cpu.opcode) = 10
    /\ chip.cpu.v[10] = \h5A

IsSetDelay(oc) == oc \div 4096 = 15 /\ oc % 256 = \h15
IsSetSound(oc) == oc \div 4096 = 15 /\ oc % 256 = \h18

\* C25: a cycle() leaves both timers as they were, but for FX15 and FX18,
\* which set one from Vx; the v-blank block of Run lowers each timer by
\* one when it is above 0 and leaves it at 0 when it is 0, and changes
\* nothing else of the machine; loading and polling leave the timers
\* alone; so a timer never goes from 0 to 255.
C25_TimersTickOnlyInVBlank ==
    [][ /\ (at = "loop" =>
              /\ chip'.cpu.dt = IF Fetching /\ IsSetDelay(OpcodeAtPC)
                                THEN chip.cpu.v[x(OpcodeAtPC)] ELSE chip.cpu.dt
              /\ chip'.cpu.st = IF Fetching /\ IsSetSound(OpcodeAtPC)
                                THEN chip.cpu.v[x(OpcodeAtPC)] ELSE chip.cpu.st)
        /\ (at = "vblank" =>
              /\ chip'.cpu.dt = IF chip.cpu.dt > 0 THEN chip.cpu.dt - 1 ELSE 0
              /\ chip'.cpu.st = IF chip.cpu.st > 0 THEN chip.cpu.st - 1 ELSE 0
              /\ chip' = [chip EXCEPT !.cpu.dt = chip'.cpu.dt,
                                      !.cpu.st = chip'.cpu.st])
        /\ (at \in {"main", "poll"} =>
              chip'.cpu.dt = chip.cpu.dt /\ chip'.cpu.st = chip.cpu.st)
        /\ chip'.cpu.dt \in 0..255 /\ chip'.cpu.st \in 0..255
        /\ (chip.cpu.dt = 0 /\ chip'.cpu.dt # 0 => Fetching /\ IsSetDelay(OpcodeAtPC))
        /\ (chip.cpu.st = 0 /\ chip'.cpu.st # 0 => Fetching /\ IsSetSound(OpcodeAtPC))
      ]_vars

\* The delay timer was set to 3 and the sound timer to 2, and the third
\* tick has run: the delay timer went 3, 2, 1, 0 and the sound timer 2, 1,
\* 0 and stayed at 0.
C25_Witness ==
    /\ Alive /\ at = "poll" /\ cycles = 0
    /\ chip.mem[\h203] = \h15 /\ chip.mem[\h207] = \h18
    /\ chip.cpu.v[1] = 2
    /\ chip.cpu.dt = 0 /\ chip.cpu.st = 0

\* C26: in a DXYN of which some sprite pixel falls at a column Vx + c >= 64
\* or a row Vy + r >= 32, those pixels are skipped: every display cell the
\* draw changes is the cell (Vy + r) * 64 + (Vx + c) of a pixel inside the
\* display (none is wrapped to the opposite edge), VF is the collision
\* flag of the pixels inside the display alone, and the display keeps its
\* 2048 cells.
C26_DrawClips ==
    [][ Fetching /\ IsDraw(OpcodeAtPC) /\ chip'.exit = "none" =>
          LET oc == OpcodeAtPC
              vx == chip.cpu.v[x(oc)]
              vy == chip.cpu.v[y(oc)]
              Inside(r, col) == vy + r < Chip8Height /\ vx + col < Chip8Width
              Cell(r, col) == (vy + r) * Chip8Width + (vx + col)
              Pixels == (0..(n(oc) - 1)) \X (0..7)
              SpriteBit(r, col) == Bit(chip.mem[chip.cpu.i + r], 7 - col)
          IN  (\E px \in Pixels : ~Inside(px[1], px[2])) =>
                 /\ DOMAIN chip'.display = 0..(Chip8Width * Chip8Height - 1)
                 /\ \A p \in DOMAIN chip.display :
                        chip'.display[p] # chip.display[p] =>
                            \E px \in Pixels :
                                Inside(px[1], px[2]) /\ p = Cell(px[1], px[2])
                 /\ chip'.cpu.v[15] =
                        IF \E px \in Pixels :
                               /\ Inside(px[1], px[2])
                               /\ SpriteBit(px[1], px[2]) = 1
                               /\ chip.display[Cell(px[1], px[2])] = 1
                        THEN 1 ELSE 0 ]_vars

\* C27: the v-blank block of Run is entered when cycle() has been called
\* chip8frequency / VBlankFreq = 8 times since the block last ran (or
\* since Run began).
C27_TickEveryEightCycles ==
    at = "vblank" => cycles = chip8frequency \div VBlankFreq

\* C28: Run does one thing at a time and stops on quit.  The keys change
\* only in the poll, which leaves the machine and the cycle counter alone;
\* a step that changes the machine (a cycle, a tick) leaves the keys and
\* isRunning alone; the tick runs no instruction; once a quit event has
\* been polled, the only step left is the return of Run, with no cycle and
\* no tick before it, also when the machine waits for a key; and nothing
\* runs after Run has returned.
C28_DriverSerializesAndStops ==
    [][ /\ (keys' # keys \/ isRunning' # isRunning =>
              at = "poll" /\ chip' = chip /\ cycles' = cycles)
        /\ (chip' # chip =>
              /\ keys' = keys /\ isRunning' = isRunning
              /\ at \in {"main", "loop", "vblank"})
        /\ (at = "loop" /\ isRunning => cycles' = cycles + 1 /\ keys' = keys)
        /\ (at = "vblank" =>
              /\ chip'.cpu.pc = chip.cpu.pc /\ chip'.cpu.opcode = chip.cpu.opcode
              /\ chip'.cpu.v = chip.cpu.v /\ chip'.mem = chip.mem
              /\ chip'.display = chip.display /\ at' = "poll")
        /\ (at = "poll" => at' = "loop")
        /\ (~isRunning =>
              /\ at = "loop" /\ at' = "returned"
              /\ chip' = chip /\ keys' = keys /\ cycles' = cycles
              /\ ~isRunning')
        /\ (at = "returned" => vars' = vars) ]_vars

\* FF0A at 0x202 was waiting with no key pressed when a quit event was
\* polled: Run has returned, and the machine still waits at 0x202.
C28_Witness ==
    /\ at = "returned" /\ ~isRunning /\ Alive
    /\ chip.cpu.opcode = \hFF0A /\ chip.cpu.pc = \h202
    /\ NoKeyDown /\ cycles >= 3

\* C29: the display always has its 64 * 32 cells, and every cell holds 0
\* or 1.
C29_DisplayCellsAreBits ==
    /\ DOMAIN chip.display = 0..(64 * 32 - 1)
    /\ \A p \in DOMAIN chip.display : chip.display[p] \in {0, 1}

\* After a clear and the draw D005, the draw D125 has run over it: cells
\* of both sprites are set (64: row 1, column 0; 193: row 3, column 1) and
\* the cell where the two collided is 0 again (257: row 4, column 1).
C29_Witness ==
    /\ Alive /\ chip.cpu.opcode = \hD125 /\ chip.cpu.pc = \h208
    /\ chip.display[64] = 1 /\ chip.display[193] = 1
    /\ chip.display[257] = 0 /\ chip.display[256] = 1

\* The logical key the program binds the physical key to: of the physical
\* keys events come for, 7 is key 1, / is key 0xF, and A is no key.
BoundKey(scancode) ==
    CASE scancode = "SCANCODE_7" -> 1
      [] scancode = "SCANCODE_SLASH" -> 15
      [] OTHER -> -1

\* The cell of key k after the events evs came in that order: set by the
\* last key-down or key-up of a physical key bound to k, if there is one.
KeyAfter(ks, evs, k) ==
    LET hits == { j \in DOMAIN evs :
                    /\ evs[j].type \in {"KEYDOWN", "KEYUP"}
                    /\ BoundKey(evs[j].scancode) = k }
        last == CHOOSE j \in hits : \A h \in hits : h <= j
    IN  IF hits = {} THEN ks[k]
        ELSE IF evs[last].type = "KEYDOWN" THEN 1 ELSE 0

\* C30: the keys are written by key events alone.  A step that is not the
\* poll (a load, a cycle, the key-wait included, a tick) leaves them as
\* they were; the poll leaves them as some sequence of events makes them:
\* 1 after a key-down and 0 after a key-up of a bound physical key,
\* unchanged by an unbound one; and the keys are always 16 cells, 0..15,
\* each 0 or 1.
C30_KeysWrittenOnlyByEvents ==
    [][ /\ (at # "poll" => keys' = keys)
        /\ (at = "poll" =>
              \E evs \in EventSeqs :
                  \A k \in 0..15 : keys'[k] = KeyAfter(keys, evs, k))
        /\ DOMAIN keys' = 0..15
        /\ \A k \in 0..15 : keys'[k] \in {0, 1} ]_vars

\* Key-downs of 7 and / were polled while F30A waited: keys 1 and F are
\* pressed, every other key is not, and V3 got key 1.
C30_Witness ==
    /\ Alive /\ chip.cpu.opcode = \hF30A /\ chip.cpu.pc = \h204
    /\ keys[1] = 1 /\ keys[15] = 1
    /\ \A k \in (0..15) \ {1, 15} : keys[k] = 0
    /\ chip.cpu.v[3] = 1

IsLoadImmediate(oc) == oc \div 4096 = 6
IsCopy(oc) == oc \div 4096 = 8 /\ oc % 16 = 0
IsAnd(oc) == oc \div 4096 = 8 /\ oc % 16 = 2
IsXor(oc) == oc \div 4096 = 8 /\ oc % 16 = 3

\* C31: 6XNN, 8XY0, 8XY2 and 8XY3 fetched at P set Vx to NN, to Vy, to
\* Vx AND Vy and to Vx XOR Vy (bit by bit), leave pc at P + 2, and change
\* no other V register (so not VF when x # 0xF), nor I, the stack, the
\* stack pointer, the timers, memory or the display.
C31_RegisterOpsFrame ==
    [][ Fetching /\ (IsLoadImmediate(OpcodeAtPC) \/ IsCopy(OpcodeAtPC)
                       \/ IsAnd(OpcodeAtPC) \/ IsXor(OpcodeAtPC)) =>
          LET oc == OpcodeAtPC
              rx == (oc \div 256) % 16
              vx == chip.cpu.v[rx]
              vy == chip.cpu.v[(oc \div 16) % 16]
              bit(b, k) == (b \div (2 ^ k)) % 2
          IN  /\ chip'.exit = "none"
              /\ chip'.cpu.v[rx] \in 0..255
              /\ (IsLoadImmediate(oc) => chip'.cpu.v[rx] = oc % 256)
              /\ (IsCopy(oc) => chip'.cpu.v[rx] = vy)
              /\ (IsAnd(oc) =>
                    \A k \in 0..7 :
                        bit(chip'.cpu.v[rx], k) = bit(vx, k) * bit(vy, k))
              /\ (IsXor(oc) =>
                    \A k \in 0..7 :
                        bit(chip'.cpu.v[rx], k) = (bit(vx, k) + bit(vy, k)) % 2)
              /\ \A r \in 0..15 : r # rx => chip'.cpu.v[r] = chip.cpu.v[r]
              /\ (rx # 15 => chip'.cpu.v[15] = chip.cpu.v[15])
              /\ chip'.cpu.pc = chip.cpu.pc + 2
              /\ chip'.cpu.i = chip.cpu.i
              /\ chip'.cpu.stack = chip.cpu.stack /\ chip'.cpu.sp = chip.cpu.sp
              /\ chip'.cpu.dt = chip.cpu.dt /\ chip'.cpu.st = chip.cpu.st
              /\ chip'.mem = chip.mem /\ chip'.display = chip.display ]_vars

\* 8123 at 0x208 has run with V1 = 0xF0 and V2 = 0x3C: V1 is 0xCC, and V2,
\* VF = 0xAA and I = 0x123 are as they were.
C31_Witness ==
    /\ Alive /\ chip.cpu.opcode = \h8123 /\ chip.cpu.pc = \h20A
    /\ chip.cpu.v[1] = \hCC /\ chip.cpu.v[2] = \h3C
    /\ chip.cpu.v[15] = \hAA /\ chip.cpu.i = \h123

=============================================================================
